---- MODULE Spec2Model ----
(***************************************************************************)
(* Release tooling of opentelemetry-go-build-tools: the tag operation      *)
(* (tag.Run, newTagger, verifyTagsOnCommit, tagAllModules, deleteTags) and *)
(* the sync operation (sync.Run), modelled as state machines over the tag  *)
(* namespace and the working tree of one local git repository.             *)
(***************************************************************************)
EXTENDS Integers, Sequences, FiniteSets, TLC

(***************************************************************************)
(* Bounds of the model.                                                    *)
(***************************************************************************)
\* Longest list of modules (hence of full tag names) of the released set.
MaxTags == 3

\* Longest list of foreign module sets given to sync.
MaxSets == 2

\* Longest list of modules of one set of the versioning manifest.
MaxMods == 2

(***************************************************************************)
(* The versioning manifest and the module tree (fixture of                 *)
(* TestNewModuleSetRelease).                                               *)
(***************************************************************************)
RepoRootTag == "REPOROOTTAG"

\* Module path -> path components of its go.mod file under the repo root.
ModPathMap ==
    [p \in {"go.opentelemetry.io/test/test1",
            "go.opentelemetry.io/test/testexcluded",
            "go.opentelemetry.io/test3",
            "go.opentelemetry.io/testroot/v2"} |->
        CASE p = "go.opentelemetry.io/test/test1"  -> <<"test", "test1", "go.mod">>
          [] p = "go.opentelemetry.io/test/testexcluded" -> <<"test", "test2", "go.mod">>
          [] p = "go.opentelemetry.io/test3"       -> <<"test", "go.mod">>
          [] p = "go.opentelemetry.io/testroot/v2" -> <<"go.mod">>]

ModulePaths == DOMAIN ModPathMap

\* Module set name -> version of the set.
ModSetVersions ==
    [s \in {"mod-set-1", "mod-set-2"} |->
        IF s = "mod-set-1" THEN "v1.2.3-RC1+meta" ELSE "v0.1.0"]

ModSetNames == DOMAIN ModSetVersions

RECURSIVE JoinSlash(_)
JoinSlash(parts) ==
    IF Len(parts) = 0 THEN ""
    ELSE IF Len(parts) = 1 THEN parts[1]
    ELSE parts[1] \o "/" \o JoinSlash(Tail(parts))

\* Directory of the module's go.mod relative to the repo root, or the root
\* sentinel when the go.mod sits at the root.
ModuleTagName(modPath) ==
    LET file == ModPathMap[modPath]
        dir  == SubSeq(file, 1, Len(file) - 1)
    IN  IF Len(dir) = 0 THEN RepoRootTag ELSE JoinSlash(dir)

FullTagName(tagName, version) ==
    IF tagName = RepoRootTag THEN version ELSE tagName \o "/" \o version

\* ModuleSetRelease.ModuleFullTagNames: one per module, in declaration order.
ModuleFullTagNames(modules, version) ==
    [i \in 1..Len(modules) |-> FullTagName(ModuleTagName(modules[i]), version)]

(***************************************************************************)
(* The git repository: commits, revisions, tags.                           *)
(***************************************************************************)
ZeroHash == <<0, 0>>

\* Full commit hashes of the repository (two digits stand for forty).
Commits == {<<1, 2>>, <<2, 1>>}

\* Revisions given on the command line: an abbreviated hash, a full hash and
\* one that names no commit.
Revisions == {<<1>>, <<2, 1>>, <<3>>}

IsPrefix(s, t) == Len(s) <= Len(t) /\ SubSeq(t, 1, Len(s)) = s

NilErr == [kind |-> "nil"]
ErrTagNotFound == [kind |-> "tag not found"]
ErrTagExists == [kind |-> "tag already exists"]
ErrStorage == [kind |-> "storage error"]
ErrObjectNotFound == [kind |-> "object not found"]
ErrReferenceNotFound == [kind |-> "reference not found"]

\* fmt.Errorf("<msg>: %v", err)
Wrap(msg, cause) == [kind |-> "wrapped", msg |-> msg, cause |-> cause]
\* fmt.Errorf("<msg> %v: %v", tag, err)
WrapTag(msg, tag, cause) ==
    [kind |-> "wrapped", msg |-> msg, tag |-> tag, cause |-> cause]

\* repo.ResolveRevision: the one commit the revision abbreviates.
ResolveRevision(rev) ==
    LET m == {c \in Commits : IsPrefix(rev, c)}
    IN  IF Cardinality(m) = 1
        THEN [err |-> NilErr, hash |-> CHOOSE c \in m : TRUE]
        ELSE [err |-> ErrReferenceNotFound, hash |-> ZeroHash]

getFullCommitHash(rev) ==
    LET r == ResolveRevision(rev)
    IN  IF r.err # NilErr
        THEN [err |-> Wrap("error getting full hash", r.err), hash |-> ZeroHash]
        ELSE [err |-> NilErr, hash |-> r.hash]

\* A tag of the namespace.  kind: "absent"; "annotated" (a tag object whose
\* target is the commit); "lightweight" (a reference straight to the commit,
\* no tag object); "annotated-tree" (a tag object whose target is no commit).
NoTag == [kind |-> "absent", commit |-> ZeroHash, message |-> ""]
AnnotatedTag(commit, message) ==
    [kind |-> "annotated", commit |-> commit, message |-> message]
LightweightTag(commit) ==
    [kind |-> "lightweight", commit |-> commit, message |-> ""]
TreeTag == [kind |-> "annotated-tree", commit |-> ZeroHash, message |-> "old"]

Exists(repo, name) == repo[name].kind # "absent"

UnrelatedTag == "unrelated/v9.9.9"

AllTagNames ==
    {FullTagName(ModuleTagName(p), ModSetVersions[s]) :
        p \in ModulePaths, s \in ModSetNames} \cup {UnrelatedTag}

\* repo.CreateTag(name, hash, &CreateTagOptions{Message}): an annotated tag.
\* Fails when the reference exists, or when the object store or the
\* reference store fails (storageOk = FALSE); a failure leaves no reference.
CreateTag(repo, name, commit, message, storageOk) ==
    IF Exists(repo, name) THEN [err |-> ErrTagExists, repo |-> repo]
    ELSE IF ~storageOk THEN [err |-> ErrStorage, repo |-> repo]
    ELSE [err |-> NilErr,
          repo |-> [repo EXCEPT ![name] = AnnotatedTag(commit, message)]]

\* repo.DeleteTag(name): looks the tag up first, then removes the reference.
DeleteTag(repo, name, storageOk) ==
    IF ~Exists(repo, name) THEN [err |-> ErrTagNotFound, repo |-> repo]
    ELSE IF ~storageOk THEN [err |-> ErrStorage, repo |-> repo]
    ELSE [err |-> NilErr, repo |-> [repo EXCEPT ![name] = NoTag]]

\* repo.Tag(name)
RepoTag(repo, name, storageOk) ==
    IF ~storageOk THEN ErrStorage
    ELSE IF ~Exists(repo, name) THEN ErrTagNotFound
    ELSE NilErr

\* repo.TagObject(tagRef.Hash())
RepoTagObject(repo, name) ==
    IF repo[name].kind = "lightweight" THEN ErrObjectNotFound ELSE NilErr

\* tagObj.Commit()
TagObjCommit(repo, name) ==
    IF repo[name].kind = "annotated-tree"
    THEN [err |-> ErrObjectNotFound, hash |-> ZeroHash]
    ELSE [err |-> NilErr, hash |-> repo[name].commit]

errGitTagsNotOnCommit(commitHash, tagNames) ==
    [kind |-> "errGitTagsNotOnCommit", commitHash |-> commitHash,
     tagNames |-> tagNames]

errGitTagsAlreadyExist(tagNames) ==
    [kind |-> "errGitTagsAlreadyExist", tagNames |-> tagNames]

\* if targetCommitHash != tagCommit.Hash
NotOnCommit_never(targetCommitHash, tagCommitHash) == FALSE

NotOnCommit(targetCommitHash, tagCommitHash) == targetCommitHash # tagCommitHash

\* tagsNotOnCommit = append(tagsNotOnCommit, tagName)
Collect_first(tagsNotOnCommit, tagName) ==
    IF Len(tagsNotOnCommit) = 0 THEN <<tagName>> ELSE tagsNotOnCommit

Collect(tagsNotOnCommit, tagName) == Append(tagsNotOnCommit, tagName)

(***************************************************************************)
(* verifyTagsOnCommit: the loop over modFullTagNames from position i with  *)
(* tagsNotOnCommit collected so far.  faultAt is the position whose        *)
(* repo.Tag lookup fails with a storage error (0: none does).              *)
(***************************************************************************)
RECURSIVE verifyTagsLoop(_, _, _, _, _, _)
verifyTagsLoop(modFullTagNames, i, repo, targetCommitHash, faultAt, tagsNotOnCommit) ==
    IF i > Len(modFullTagNames)
    THEN IF Len(tagsNotOnCommit) > 0
         THEN errGitTagsNotOnCommit(targetCommitHash, tagsNotOnCommit)
         ELSE NilErr
    ELSE
      LET tagName   == modFullTagNames[i]
          tagRefErr == RepoTag(repo, tagName, i # faultAt)
      IN  CASE tagRefErr = NilErr ->
                 IF RepoTagObject(repo, tagName) # NilErr
                 THEN Wrap("unable to get tag object", RepoTagObject(repo, tagName))
                 ELSE IF TagObjCommit(repo, tagName).err # NilErr
                 THEN Wrap("could not get tag object commit",
                           TagObjCommit(repo, tagName).err)
                 ELSE verifyTagsLoop(modFullTagNames, i + 1, repo, targetCommitHash,
                        faultAt,
                        IF NotOnCommit(targetCommitHash,
                                       TagObjCommit(repo, tagName).hash)
                        THEN Collect(tagsNotOnCommit, tagName)
                        ELSE tagsNotOnCommit)
            [] tagRefErr = ErrTagNotFound ->
                 verifyTagsLoop(modFullTagNames, i + 1, repo, targetCommitHash,
                                faultAt, tagsNotOnCommit)
            [] OTHER ->
                 WrapTag("unable to fetch git tag ref for", tagName, tagRefErr)

verifyTagsOnCommit(modFullTagNames, repo, targetCommitHash, faultAt) ==
    verifyTagsLoop(modFullTagNames, 1, repo, targetCommitHash, faultAt, <<>>)

\* ModuleSetRelease.VerifyGitTagsDoNotAlreadyExist: fails when a full tag
\* name of the set is a tag of the repository.
VerifyGitTagsDoNotAlreadyExist(modFullTagNames, repo) ==
    LET existing == SelectSeq(modFullTagNames, LAMBDA n : Exists(repo, n))
    IN  IF Len(existing) > 0 THEN errGitTagsAlreadyExist(existing) ELSE NilErr

\* newTagger without the create path's verification.
newTagger_noVerify(modFullTagNames, repo, rev, deleteFlag, releaseOk, faultAt) ==
    LET full == getFullCommitHash(rev)
    IN  IF ~releaseOk \/ full.err # NilErr
        THEN [err |-> Wrap("error creating prerelease struct", ErrStorage),
              CommitHash |-> ZeroHash, verifyErr |-> [kind |-> "not called"]]
        ELSE IF deleteFlag
        THEN LET e == verifyTagsOnCommit(modFullTagNames, repo, full.hash, faultAt)
             IN  IF e # NilErr
                 THEN [err |-> Wrap("verifyTagsOnCommit failed", e),
                       CommitHash |-> ZeroHash, verifyErr |-> e]
                 ELSE [err |-> NilErr, CommitHash |-> full.hash, verifyErr |-> e]
        ELSE [err |-> NilErr, CommitHash |-> full.hash,
              verifyErr |-> [kind |-> "not called"]]

(***************************************************************************)
(* newTagger.  releaseOk: common.NewModuleSetRelease succeeds.             *)
(***************************************************************************)
newTagger(modFullTagNames, repo, rev, deleteFlag, releaseOk, faultAt) ==
    IF ~releaseOk
    THEN [err |-> Wrap("error creating prerelease struct", ErrStorage),
          CommitHash |-> ZeroHash, verifyErr |-> [kind |-> "not called"]]
    ELSE
      LET full == getFullCommitHash(rev)
      IN  IF full.err # NilErr
          THEN [err |-> Wrap("could not get full commit hash of given hash", full.err),
                CommitHash |-> ZeroHash, verifyErr |-> [kind |-> "not called"]]
          ELSE IF deleteFlag
          THEN LET e == verifyTagsOnCommit(modFullTagNames, repo, full.hash, faultAt)
               IN  IF e # NilErr
                   THEN [err |-> Wrap("verifyTagsOnCommit failed", e),
                         CommitHash |-> ZeroHash, verifyErr |-> e]
                   ELSE [err |-> NilErr, CommitHash |-> full.hash, verifyErr |-> e]
          ELSE LET e == VerifyGitTagsDoNotAlreadyExist(modFullTagNames, repo)
               IN  IF e # NilErr
                   THEN [err |-> Wrap("VerifyGitTagsDoNotAlreadyExist failed", e),
                         CommitHash |-> ZeroHash, verifyErr |-> [kind |-> "not called"]]
                   ELSE [err |-> NilErr, CommitHash |-> full.hash,
                         verifyErr |-> [kind |-> "not called"]]

tagMessage_swapped(setName, version) ==
    "Module set " \o version \o ", Version " \o setName

\* fmt.Sprintf("Module set %v, Version %v", ModSetName, ModSetVersion())
tagMessage(setName, version) == "Module set " \o setName \o ", Version " \o version

tagAllModulesError_masked(newFullTag, err, delTagsErr) ==
    IF delTagsErr # NilErr
    THEN [kind |-> "git tag failed", tag |-> delTagsErr.tag,
          cause |-> delTagsErr.cause, rollback |-> delTagsErr]
    ELSE [kind |-> "git tag failed", tag |-> newFullTag, cause |-> err,
          rollback |-> NilErr]

\* The errors tagAllModules returns after a failed CreateTag.
tagAllModulesError(newFullTag, err, delTagsErr) ==
    IF delTagsErr # NilErr
    THEN [kind |-> "git tag failed", tag |-> newFullTag, cause |-> err,
          rollback |-> delTagsErr]
    ELSE [kind |-> "git tag failed", tag |-> newFullTag, cause |-> err,
          rollback |-> NilErr]

(***************************************************************************)
(* State.                                                                  *)
(***************************************************************************)
VARIABLES
    tags,                 \* the repository's tag namespace: name -> tag
    ModSetName,           \* tag.Run: moduleSetName
    ModSet,               \* the released set: [Version, Modules]
    modFullTags,      \* ModuleSetRelease.ModuleFullTagNames()
    commitHash,           \* tag.Run: the revision given on the command line
    deleteModuleSetTags,  \* tag.Run: the delete flag
    pc,                   \* position of tag.Run
    CommitHash,           \* tagger.CommitHash
    addedFullTags,        \* tagAllModules: tags created so far
    newFullTag,           \* tagAllModules: the tag whose creation failed
    createErr,            \* tagAllModules: err of the failed CreateTag
    delTags,              \* deleteTags: the part of modFullTags still to go
    fatalErr,             \* the error tag.Run ends with (log.Fatalf)
    verifyErr,            \* what verifyTagsOnCommit returned
    lookupFault,          \* history: position whose repo.Tag lookup failed
    tags0,                \* history: the tag namespace when tag.Run started
    delCalls,             \* history: names DeleteTag was called with
    delTagsErr,           \* history: what the rollback's deleteTags returned
    storageFault          \* history: a git call failed in the store

tagVars == <<tags, ModSetName, ModSet, modFullTags, commitHash,
             deleteModuleSetTags, pc,
             CommitHash, addedFullTags, newFullTag, createErr, delTags,
             fatalErr, verifyErr, lookupFault, tags0, delCalls, delTagsErr, storageFault>>

\* State of sync.Run.
VARIABLES
    worktree,             \* the working tree: [gomod, gosum, other]
    headTree,             \* the tree of the commit HEAD points at
    branch,               \* the branch HEAD is on
    branches,             \* the branches of the repository
    commits,              \* commits made, in order: [branch, message, tree]
    otherModuleSetNames,  \* sync.Run: the foreign module sets to sync to
    allModuleSets,        \* sync.Run: take every set of the foreign manifest
    skipModTidy,          \* sync.Run: do not run go mod tidy
    syncPc,               \* position of sync.Run
    setIdx,               \* position of the loop in otherModuleSetNames
    syncErr,              \* the error sync.Run ends with (log.Fatal)
    worktree0,            \* history: the working tree when sync.Run started
    headTree0,            \* history: the tree of HEAD when sync.Run started
    upToDate,             \* history: set name -> what its rewrite did
    tidyRuns,             \* history: set names go mod tidy was run for
    tidyWarnings,         \* history: set names whose go mod tidy failed
    run,                  \* history: 1 in the first sync.Run, 2 in the second
    branches0,            \* history: the branches when sync.Run started
    commits0,             \* history: the commits when sync.Run started
    iter                  \* history: the working tree when the iteration of
                          \* the loop started, the go.mod files it has rewritten

\* What tells the invocations of sync.Run apart.
rerunVars == <<run, branches0, commits0>>

syncVars == <<worktree, headTree, branch, branches, commits,
              otherModuleSetNames, allModuleSets, skipModTidy, syncPc, setIdx,
              syncErr, worktree0, headTree0, upToDate, tidyRuns,
              tidyWarnings, rerunVars, iter>>

\* State of the construction of the versioning index and of the release
\* struct of one module set.
VARIABLES
    modSetMap,            \* the manifest: set name -> [Version, Modules]
    setOrder,             \* the order in which range visits the keys of modSetMap
    setPos,               \* position of the outer loop in setOrder
    modPos,               \* position of the inner loop in moduleSet.Modules
    modInfoMap,           \* the index: module path -> [ModuleSetName, Version]
    indexErr,             \* the error the construction returns
    indexPc,              \* position of the construction
    modSetToUpdate,       \* NewModuleSetRelease: the set to release
    TagNames,             \* ModuleSetRelease.TagNames
    FullTagNames          \* what ModuleSetRelease.ModuleFullTagNames() returns

indexVars == <<modSetMap, setOrder, setPos, modPos, modInfoMap, indexErr,
               indexPc, modSetToUpdate, TagNames, FullTagNames>>

\* State of two tag.Run processes that work on one repository at a time.
\* They share tags, and ModSetName, ModSet, modFullTags and commitHash are
\* the arguments of both.
VARIABLES
    runPc,                \* run -> position of that tag.Run
    runAdded,             \* run -> its addedFullTags
    runDelTags,           \* run -> the part of its rollback list still to go
    runErr,               \* run -> the error it ends with
    createdBy,            \* history: tag name -> the run that wrote the tag
    deletedOf,            \* history: run -> the runs whose tags it has deleted
    overwritten,          \* history: a CreateTag wrote over an existing tag
    rollbackFailed        \* history: a DeleteTag of a rollback failed

concVars == <<runPc, runAdded, runDelTags, runErr, createdBy, deletedOf,
              overwritten, rollbackFailed>>

vars == <<tagVars, syncVars, indexVars, concVars>>

NotCalled == [kind |-> "not called"]

TagNameSet == {modFullTags[i] : i \in 1..Len(modFullTags)}

RECURSIVE DistinctSeqs(_, _)
\* The sequences of at most n distinct elements of S.
DistinctSeqs(S, n) ==
    IF n = 0 THEN {<<>>}
    ELSE {<<>>} \cup
         UNION {{<<x>> \o q : q \in DistinctSeqs(S \ {x}, n - 1)} : x \in S}

\* Tags a repository may hold under a name before the run.
OldTags ==
    {NoTag, TreeTag, LightweightTag(<<1, 2>>)}
        \cup {AnnotatedTag(c, "old") : c \in Commits}

\* A tag namespace: old holds the tags under the full tag names of the set,
\* the tag outside every module set exists, all other names are free.
Namespace(old) ==
    [n \in AllTagNames |->
        IF n = UnrelatedTag THEN AnnotatedTag(<<1, 2>>, "old")
        ELSE IF n \in DOMAIN old THEN old[n]
        ELSE NoTag]

\* The inputs of tag.Run and the repository it starts on.  The create path
\* reads only whether a tag exists, the delete path never reads the name of
\* the set: the tags and set names tried are cut down accordingly.
TagInit ==
    /\ deleteModuleSetTags \in BOOLEAN
    /\ ModSetName \in IF deleteModuleSetTags THEN {"mod-set-1"} ELSE ModSetNames
    /\ \E ms \in DistinctSeqs(ModulePaths, MaxTags) \ {<<>>} :
          ModSet = [Version |-> ModSetVersions[ModSetName], Modules |-> ms]
    /\ modFullTags = ModuleFullTagNames(ModSet.Modules, ModSet.Version)
    /\ commitHash \in Revisions
    /\ \E old \in [{modFullTags[i] : i \in 1..Len(modFullTags)} ->
                      IF deleteModuleSetTags THEN OldTags
                      ELSE {NoTag, AnnotatedTag(<<1, 2>>, "old")}] :
          tags = Namespace(old)
    /\ tags0 = tags
    /\ pc = "newTagger"
    /\ CommitHash = ZeroHash
    /\ addedFullTags = <<>>
    /\ newFullTag = ""
    /\ createErr = NilErr
    /\ delTags = <<>>
    /\ fatalErr = NilErr
    /\ verifyErr = NotCalled
    /\ lookupFault = 0
    /\ delCalls = <<>>
    /\ delTagsErr = NilErr
    /\ storageFault = FALSE

(***************************************************************************)
(* tag.Run up to the branch on the delete flag: FindRepoRoot, newTagger.   *)
(***************************************************************************)
RunNewTagger ==
    /\ pc = "newTagger"
    /\ \E rootOk \in BOOLEAN, releaseOk \in BOOLEAN,
          faultAt \in 0..Len(modFullTags) :
          LET t == newTagger(modFullTags, tags, commitHash,
                             deleteModuleSetTags, releaseOk, faultAt)
          IN  IF ~rootOk
              THEN /\ fatalErr' = Wrap("unable to change to repo root", ErrStorage)
                   /\ pc' = "fatal"
                   /\ storageFault' = TRUE
                   /\ UNCHANGED <<CommitHash, verifyErr, lookupFault>>
              ELSE /\ fatalErr' = IF t.err # NilErr
                                  THEN Wrap("Error creating new tagger struct", t.err)
                                  ELSE NilErr
                   /\ pc' = IF t.err # NilErr THEN "fatal"
                            ELSE IF deleteModuleSetTags THEN "deleteModuleSetTags"
                            ELSE "tagAllModules"
                   /\ CommitHash' = t.CommitHash
                   /\ verifyErr' = t.verifyErr
                   /\ lookupFault' = IF t.verifyErr # NotCalled THEN faultAt ELSE 0
                   /\ storageFault' =
                        (~releaseOk \/ (t.verifyErr.kind = "wrapped"
                                        /\ t.verifyErr.cause = ErrStorage))
    /\ delTags' = IF pc' = "deleteModuleSetTags" THEN modFullTags ELSE <<>>
    /\ UNCHANGED <<tags, ModSetName, ModSet, modFullTags, commitHash,
                   deleteModuleSetTags,
                   addedFullTags, newFullTag, createErr, tags0, delCalls,
                   delTagsErr>>
    /\ UNCHANGED syncVars
    /\ UNCHANGED indexVars
    /\ UNCHANGED concVars

(***************************************************************************)
(* tagAllModules: one iteration of the loop over modFullTags.              *)
(***************************************************************************)
NextFullTag_reversed == modFullTags[Len(modFullTags) - Len(addedFullTags)]

\* The tag the loop creates next.
NextFullTag == modFullTags[Len(addedFullTags) + 1]

\* The rollback list with the tag whose creation failed added to it.
tagsToRollBack_withFailed == Append(addedFullTags, NextFullTag)

\* The list handed to deleteTags after a failed CreateTag: addedFullTags.
tagsToRollBack == addedFullTags

TagModule ==
    /\ pc = "tagAllModules"
    /\ \E storageOk \in BOOLEAN :
          LET r == CreateTag(tags, NextFullTag, CommitHash,
                             tagMessage(ModSetName, ModSet.Version), storageOk)
          IN  IF r.err # NilErr
              THEN \* roll back: deleteTags(addedFullTags)
                   /\ tags' = r.repo
                   /\ newFullTag' = NextFullTag
                   /\ createErr' = r.err
                   /\ storageFault' = (storageFault \/ r.err = ErrStorage)
                   /\ UNCHANGED addedFullTags
                   /\ IF Len(tagsToRollBack) = 0
                      THEN /\ pc' = "fatal"
                           /\ fatalErr' = Wrap("unable to tag modules",
                                 tagAllModulesError(NextFullTag, r.err, NilErr))
                           /\ delTags' = <<>>
                      ELSE /\ pc' = "rollback"
                           /\ delTags' = tagsToRollBack
                           /\ UNCHANGED fatalErr
              ELSE /\ tags' = r.repo
                   /\ addedFullTags' = Append(addedFullTags, NextFullTag)
                   /\ pc' = IF Len(addedFullTags') = Len(modFullTags)
                            THEN "done" ELSE "tagAllModules"
                   /\ UNCHANGED <<newFullTag, createErr, delTags, fatalErr,
                                  storageFault>>
    /\ UNCHANGED <<ModSetName, ModSet, modFullTags, commitHash,
                   deleteModuleSetTags,
                   CommitHash, verifyErr, lookupFault, tags0, delCalls,
                   delTagsErr>>
    /\ UNCHANGED syncVars
    /\ UNCHANGED indexVars
    /\ UNCHANGED concVars

(***************************************************************************)
(* deleteTags: one iteration of the loop, deleting the head of delTags.    *)
(* Returns [err, repo, rest]: rest is empty when the loop has returned.    *)
(***************************************************************************)
deleteTagsStep_skip(repo, fullTags, storageOk) ==
    [err |-> NilErr, repo |-> repo, rest |-> Tail(fullTags),
     returned |-> Len(fullTags) = 1]

\* A loop that goes on to the remaining tags after a failed deletion.
deleteTagsStep_continue(repo, fullTags, storageOk) ==
    LET r == DeleteTag(repo, Head(fullTags), storageOk)
    IN  [err |-> IF r.err # NilErr
                 THEN WrapTag("could not delete tag", Head(fullTags), r.err)
                 ELSE NilErr,
         repo |-> r.repo, rest |-> Tail(fullTags),
         returned |-> Len(fullTags) = 1]

deleteTagsStep(repo, fullTags, storageOk) ==
    LET modFullTag == Head(fullTags)
        r == DeleteTag(repo, modFullTag, storageOk)
    IN  IF r.err # NilErr
        THEN [err |-> WrapTag("could not delete tag", modFullTag, r.err),
              repo |-> r.repo, rest |-> <<>>, returned |-> TRUE]
        ELSE [err |-> NilErr, repo |-> r.repo, rest |-> Tail(fullTags),
              returned |-> Len(fullTags) = 1]

\* The rollback of tagAllModules: deleteTags(addedFullTags), then the error.
Rollback ==
    /\ pc = "rollback"
    /\ \E storageOk \in BOOLEAN :
          LET d == deleteTagsStep(tags, delTags, storageOk)
          IN  /\ tags' = d.repo
              /\ delTags' = d.rest
              /\ delCalls' = Append(delCalls, Head(delTags))
              /\ delTagsErr' = d.err
              /\ storageFault' =
                    (storageFault \/ (d.err # NilErr /\ d.err.cause = ErrStorage))
              /\ IF d.returned
                 THEN /\ pc' = "fatal"
                      /\ fatalErr' = Wrap("unable to tag modules",
                            tagAllModulesError(newFullTag, createErr, d.err))
                 ELSE UNCHANGED <<pc, fatalErr>>
    /\ UNCHANGED <<ModSetName, ModSet, modFullTags, commitHash,
                   deleteModuleSetTags,
                   CommitHash, addedFullTags, newFullTag, createErr, verifyErr,
                   lookupFault, tags0>>
    /\ UNCHANGED syncVars
    /\ UNCHANGED indexVars
    /\ UNCHANGED concVars

\* tagger.deleteModuleSetTags: deleteTags(ModuleFullTagNames()).
DeleteModuleSetTags ==
    /\ pc = "deleteModuleSetTags"
    /\ \E storageOk \in BOOLEAN :
          LET d == deleteTagsStep(tags, delTags, storageOk)
          IN  /\ tags' = d.repo
              /\ delTags' = d.rest
              /\ delCalls' = Append(delCalls, Head(delTags))
              /\ storageFault' =
                    (storageFault \/ (d.err # NilErr /\ d.err.cause = ErrStorage))
              /\ IF d.returned
                 THEN IF d.err # NilErr
                      THEN /\ pc' = "fatal"
                           /\ fatalErr' =
                                Wrap("Error deleting tags for the specified module set",
                                     Wrap("unable to delete module tags", d.err))
                      ELSE /\ pc' = "done"
                           /\ UNCHANGED fatalErr
                 ELSE UNCHANGED <<pc, fatalErr>>
    /\ UNCHANGED <<ModSetName, ModSet, modFullTags, commitHash,
                   deleteModuleSetTags,
                   CommitHash, addedFullTags, newFullTag, createErr, verifyErr,
                   lookupFault, tags0, delTagsErr>>
    /\ UNCHANGED syncVars
    /\ UNCHANGED indexVars
    /\ UNCHANGED concVars

(***************************************************************************)
(* The sync operation: the local modules, the foreign manifest, the        *)
(* working tree.                                                           *)
(***************************************************************************)
\* The go.mod files of the local modules (MyModuleVersioning.ModPathMap).
MyModFiles == {"go.mod", "test/go.mod"}

\* The foreign manifest: set name -> [Version, Modules].
OtherModSetMap ==
    [n \in {"other-set-1", "other-set-2", "other-set-3"} |->
        CASE n = "other-set-1" ->
               [Version |-> "v1.0.0", Modules |-> {"go.opentelemetry.io/other/m1"}]
          [] n = "other-set-2" ->
               [Version |-> "v2.0.0", Modules |-> {"go.opentelemetry.io/other/m2"}]
          [] n = "other-set-3" ->
               [Version |-> "v3.0.0", Modules |-> {"go.opentelemetry.io/other/m3"}]]

OtherSetNames == DOMAIN OtherModSetMap

\* A module no foreign set lists.
ThirdParty == "example.com/third"

Deps == UNION {OtherModSetMap[n].Modules : n \in OtherSetNames} \cup {ThirdParty}

\* The version of the foreign set that lists the module.
OtherVersion(dep) ==
    OtherModSetMap[CHOOSE n \in OtherSetNames : dep \in OtherModSetMap[n].Modules].Version

\* Versions a go.mod of the committed tree may require a dependency at
\* ("": not required).  Only the root module requires the third-party module
\* and the module of other-set-3.
OldVersions(file, dep) ==
    IF dep = ThirdParty
    THEN IF file = "go.mod" THEN {"v0.9.0"} ELSE {""}
    ELSE IF dep = "go.opentelemetry.io/other/m3"
    THEN IF file = "go.mod" THEN {"v0.9.0", OtherVersion(dep)} ELSE {""}
    ELSE {"", "v0.9.0", OtherVersion(dep)}

RECURSIVE GoModFiles(_)
\* The contents the go.mod files of the given set may have when committed.
GoModFiles(files) ==
    IF files = {} THEN {<<>>}
    ELSE LET f == CHOOSE x \in files : TRUE
         IN  {(f :> g) @@ rest :
                 g \in {h \in [Deps -> {"", "v0.9.0", "v1.0.0", "v2.0.0", "v3.0.0"}] :
                          \A d \in Deps : h[d] \in OldVersions(f, d)},
                 rest \in GoModFiles(files \ {f})}

\* The committed trees the run may start from: go.sum matches go.mod.
StartTrees ==
    {[gomod |-> g, gosum |-> g, other |-> "committed"] : g \in GoModFiles(MyModFiles)}

\* worktree.Status().IsClean()
IsClean(tree, head) == tree = head

\* common.UpdateGoModFiles, on the files of modFilePaths: every requirement
\* on a module of newModPaths is set to newVersion.
UpdateGoModFiles(gomod, modFilePaths, newModPaths, newVersion) ==
    [f \in DOMAIN gomod |->
        IF f \in modFilePaths
        THEN [d \in DOMAIN gomod[f] |->
                IF d \in newModPaths /\ gomod[f][d] # "" THEN newVersion
                ELSE gomod[f][d]]
        ELSE gomod[f]]

\* The go.mod files of only one local module.
modFilePaths_first == {CHOOSE f \in MyModFiles : TRUE}

\* modFilePaths: the go.mod file of every module of ModPathMap.
modFilePaths == MyModFiles

\* A rewrite that leaves a trace in the tree each time it is run.
updateAllGoModFiles_trace(tree, otherModuleSet, written) ==
    [tree EXCEPT !.gomod =
        UpdateGoModFiles(tree.gomod, written \cap modFilePaths,
                         otherModuleSet.Modules, otherModuleSet.Version),
                 !.other = tree.other \o "+"]

\* A rewrite that changes no file unless it can change them all.
updateAllGoModFiles_allOrNothing(tree, otherModuleSet, written) ==
    IF written # modFilePaths THEN tree
    ELSE [tree EXCEPT !.gomod =
            UpdateGoModFiles(tree.gomod, modFilePaths, otherModuleSet.Modules,
                             otherModuleSet.Version)]

\* sync.updateAllGoModFiles: all files of ModPathMap; written is the set of
\* files rewritten before a write failed (all of them on success).
updateAllGoModFiles(tree, otherModuleSet, written) ==
    [tree EXCEPT !.gomod =
        UpdateGoModFiles(tree.gomod, written \cap modFilePaths,
                         otherModuleSet.Modules, otherModuleSet.Version)]

checkModuleSetUpToDate_inverted(tree, head, statusOk) ==
    IF ~statusOk
    THEN [upToDate |-> FALSE, err |-> Wrap("could not get worktree status", ErrStorage)]
    ELSE [upToDate |-> ~IsClean(tree, head), err |-> NilErr]

\* sync.checkModuleSetUpToDate
checkModuleSetUpToDate(tree, head, statusOk) ==
    IF ~statusOk
    THEN [upToDate |-> FALSE, err |-> Wrap("could not get worktree status", ErrStorage)]
    ELSE IF IsClean(tree, head)
    THEN [upToDate |-> TRUE, err |-> NilErr]
    ELSE [upToDate |-> FALSE, err |-> NilErr]

\* common.VerifyWorkingTreeClean
VerifyWorkingTreeClean(tree, head) ==
    IF IsClean(tree, head) THEN NilErr ELSE [kind |-> "errWorkingTreeNotClean"]

\* The branch name with the version before the name of the set.
branchName_swapped(setName, version) == "sync" \o "_" \o version \o "_" \o setName

\* strings.Join([]string{"sync", OtherModuleSetName, Version}, "_")
branchName(setName, version) == "sync" \o "_" \o setName \o "_" \o version

\* fmt.Sprintf("Sync repo to use %v with version %v", ...)
commitMessage(setName, version) ==
    "Sync repo to use " \o setName \o " with version " \o version

\* common.CommitChangesToNewBranch: a new branch is created at HEAD and
\* checked out with the changes of the working tree kept, and all changes
\* are committed on it.  Fails when the branch exists or the store fails.
CommitChangesToNewBranch(name, message, tree, storageOk) ==
    IF name \in branches \/ ~storageOk
    THEN [err |-> ErrStorage, branch |-> branch, branches |-> branches,
          commits |-> commits, headTree |-> headTree]
    ELSE [err |-> NilErr, branch |-> name, branches |-> branches \cup {name},
          commits |-> Append(commits, [branch |-> name, message |-> message,
                                       tree |-> tree]),
          headTree |-> tree]

\* A commit that takes the go.mod files and leaves go.sum out.
commitChangesToNewBranch_goModOnly(setName, otherModuleSet, tree, storageOk) ==
    CommitChangesToNewBranch(branchName(setName, otherModuleSet.Version),
                             commitMessage(setName, otherModuleSet.Version),
                             [tree EXCEPT !.gosum = headTree.gosum], storageOk)

\* sync.commitChangesToNewBranch
commitChangesToNewBranch(setName, otherModuleSet, tree, storageOk) ==
    CommitChangesToNewBranch(branchName(setName, otherModuleSet.Version),
                             commitMessage(setName, otherModuleSet.Version),
                             tree, storageOk)

\* common.RunGoModTidy: go.sum is brought in line with the go.mod files.
RunGoModTidy(tree) == [tree EXCEPT !.gosum = tree.gomod]

\* The preconditions without the clean-tree check.
runPrecondition_noCleanCheck(rootOk, namesOk, openOk, cleanErr) ==
    IF ~rootOk THEN Wrap("unable to find repo root", ErrStorage)
    ELSE IF ~namesOk
    THEN Wrap("could not automatically get all module set names", ErrStorage)
    ELSE IF ~openOk THEN Wrap("could not open repo", ErrStorage)
    ELSE NilErr

\* sync.Run before the loop: FindRepoRoot, GetAllModuleSetNames (namesOk;
\* called only with allModuleSets), PlainOpen, VerifyWorkingTreeClean; each
\* failure is fatal.
runPrecondition(rootOk, namesOk, openOk, cleanErr) ==
    IF ~rootOk THEN Wrap("unable to find repo root", ErrStorage)
    ELSE IF ~namesOk
    THEN Wrap("could not automatically get all module set names", ErrStorage)
    ELSE IF ~openOk THEN Wrap("could not open repo", ErrStorage)
    ELSE IF cleanErr # NilErr THEN Wrap("VerifyWorkingTreeClean failed", cleanErr)
    ELSE NilErr

\* What the rewrite of a set did, before the set's iteration has run.
NotSeen == [seen |-> FALSE, clean |-> FALSE, rewritten |-> FALSE]

\* The set the loop is at.
moduleSetName == otherModuleSetNames[setIdx]

OtherModuleSet == OtherModSetMap[moduleSetName]

\* The loop moves on to the next set, or the run ends.
NextSet ==
    /\ setIdx' = setIdx + 1
    /\ syncPc' = IF setIdx = Len(otherModuleSetNames) THEN "done" ELSE "update"

SyncInit ==
    /\ headTree \in StartTrees
    /\ worktree \in {headTree,
                     [headTree EXCEPT !.other = "modified"],
                     [headTree EXCEPT !.gomod["go.mod"][ThirdParty] = "v1.0.0"]}
    /\ worktree0 = worktree
    /\ headTree0 = headTree
    /\ branch = "main"
    /\ branches = {"main"}
    /\ commits = <<>>
    /\ allModuleSets \in BOOLEAN
    /\ otherModuleSetNames \in
          IF allModuleSets THEN {<<>>}
          ELSE DistinctSeqs(OtherSetNames, MaxSets) \ {<<>>}
    /\ skipModTidy \in BOOLEAN
    /\ syncPc = "start"
    /\ setIdx = 0
    /\ syncErr = NilErr
    /\ upToDate = [n \in OtherSetNames |-> NotSeen]
    /\ tidyRuns = <<>>
    /\ tidyWarnings = <<>>
    /\ run = 1
    /\ branches0 = branches
    /\ commits0 = commits
    /\ iter = [tree |-> worktree, written |-> {}]

\* sync.Run up to the loop.
SyncStart ==
    /\ syncPc = "start"
    /\ \E rootOk \in BOOLEAN, namesOk \in BOOLEAN, openOk \in BOOLEAN,
          names \in DistinctSeqs(OtherSetNames, Cardinality(OtherSetNames)) :
          LET e == runPrecondition(rootOk, ~allModuleSets \/ namesOk, openOk,
                                   VerifyWorkingTreeClean(worktree, headTree))
          IN  \* GetAllModuleSetNames lists the keys of a map, in any order
              /\ IF allModuleSets /\ rootOk /\ namesOk
                 THEN /\ Len(names) = Cardinality(OtherSetNames)
                      /\ otherModuleSetNames' = names
                 ELSE /\ names = <<>>
                      /\ UNCHANGED otherModuleSetNames
              /\ syncErr' = e
              /\ IF e # NilErr
                 THEN /\ syncPc' = "fatal"
                      /\ UNCHANGED setIdx
                 ELSE /\ setIdx' = 1
                      /\ syncPc' = IF Len(otherModuleSetNames') = 0
                                   THEN "done" ELSE "update"
    /\ UNCHANGED <<worktree, headTree, branch, branches, commits, allModuleSets,
                   skipModTidy, worktree0, headTree0, upToDate, tidyRuns,
                   tidyWarnings>>
    /\ UNCHANGED rerunVars
    /\ UNCHANGED iter
    /\ UNCHANGED tagVars
    /\ UNCHANGED indexVars
    /\ UNCHANGED concVars

\* The loop body up to the rewrite: newSync, updateAllGoModFiles.
SyncUpdate ==
    /\ syncPc = "update"
    /\ \E newSyncOk \in BOOLEAN, written \in SUBSET MyModFiles :
          /\ iter' = [tree |-> worktree, written |-> written]
          /\ IF ~newSyncOk
             THEN /\ written = {}
                  /\ syncErr' = Wrap("Error creating new sync struct", ErrStorage)
                  /\ syncPc' = "fatal"
                  /\ UNCHANGED <<worktree, upToDate>>
             ELSE /\ worktree' = updateAllGoModFiles(worktree, OtherModuleSet, written)
                  /\ IF written # MyModFiles
                     THEN /\ syncErr' = Wrap("updateAllGoModFiles failed",
                                             Wrap("could not update all go mod files",
                                                  ErrStorage))
                          /\ syncPc' = "fatal"
                          /\ UNCHANGED upToDate
                     ELSE /\ syncPc' = "check"
                          /\ upToDate' = [upToDate EXCEPT ![moduleSetName] =
                                             [seen |-> TRUE,
                                              clean |-> IsClean(worktree', headTree),
                                              rewritten |-> worktree' # worktree]]
                          /\ UNCHANGED syncErr
    /\ UNCHANGED <<headTree, branch, branches, commits, otherModuleSetNames,
                   allModuleSets, skipModTidy, setIdx, worktree0, headTree0,
                   tidyRuns, tidyWarnings>>
    /\ UNCHANGED rerunVars
    /\ UNCHANGED tagVars
    /\ UNCHANGED indexVars
    /\ UNCHANGED concVars

\* checkModuleSetUpToDate and the branch on its result.
SyncCheck ==
    /\ syncPc = "check"
    /\ \E statusOk \in BOOLEAN :
          LET r == checkModuleSetUpToDate(worktree, headTree, statusOk)
          IN  IF r.err # NilErr
              THEN /\ syncErr' = r.err
                   /\ syncPc' = "fatal"
                   /\ UNCHANGED setIdx
              ELSE IF r.upToDate
              THEN /\ NextSet
                   /\ UNCHANGED syncErr
              ELSE /\ syncPc' = "tidy"
                   /\ UNCHANGED <<setIdx, syncErr>>
    /\ UNCHANGED <<worktree, headTree, branch, branches, commits,
                   otherModuleSetNames, allModuleSets, skipModTidy, worktree0,
                   headTree0, upToDate, tidyRuns, tidyWarnings>>
    /\ UNCHANGED rerunVars
    /\ UNCHANGED iter
    /\ UNCHANGED tagVars
    /\ UNCHANGED indexVars
    /\ UNCHANGED concVars

\* A failure of go mod tidy returned as an error of the run.
runGoModTidy_fatal(tree, tidyOk) ==
    IF tidyOk
    THEN [tree |-> RunGoModTidy(tree), warning |-> FALSE, err |-> NilErr]
    ELSE [tree |-> tree, warning |-> FALSE,
          err |-> Wrap("failed to run 'go mod tidy'", ErrStorage)]

\* The call of common.RunGoModTidy in Run: its error is logged as a warning
\* and goes no further.
runGoModTidy(tree, tidyOk) ==
    IF tidyOk
    THEN [tree |-> RunGoModTidy(tree), warning |-> FALSE, err |-> NilErr]
    ELSE [tree |-> tree, warning |-> TRUE, err |-> NilErr]

\* go mod tidy, unless skipped; its failure is logged as a warning.
SyncTidy ==
    /\ syncPc = "tidy"
    /\ IF skipModTidy
       THEN /\ syncPc' = "commit"
            /\ UNCHANGED <<worktree, tidyRuns, tidyWarnings, syncErr>>
       ELSE \E tidyOk \in BOOLEAN :
               LET r == runGoModTidy(worktree, tidyOk)
               IN  /\ tidyRuns' = Append(tidyRuns, moduleSetName)
                   /\ worktree' = r.tree
                   /\ tidyWarnings' = IF r.warning
                                      THEN Append(tidyWarnings, moduleSetName)
                                      ELSE tidyWarnings
                   /\ syncErr' = r.err
                   /\ syncPc' = IF r.err # NilErr THEN "fatal" ELSE "commit"
    /\ UNCHANGED <<headTree, branch, branches, commits, otherModuleSetNames,
                   allModuleSets, skipModTidy, setIdx, worktree0,
                   headTree0, upToDate>>
    /\ UNCHANGED rerunVars
    /\ UNCHANGED iter
    /\ UNCHANGED tagVars
    /\ UNCHANGED indexVars
    /\ UNCHANGED concVars

\* The end of the loop body: commitChangesToNewBranch.
SyncCommit ==
    /\ syncPc = "commit"
    /\ \E storageOk \in BOOLEAN :
          LET r == commitChangesToNewBranch(moduleSetName, OtherModuleSet,
                                            worktree, storageOk)
          IN  /\ branch' = r.branch
              /\ branches' = r.branches
              /\ commits' = r.commits
              /\ headTree' = r.headTree
              /\ IF r.err # NilErr
                 THEN /\ syncErr' = Wrap("commitChangesToNewBranch failed", r.err)
                      /\ syncPc' = "fatal"
                      /\ UNCHANGED setIdx
                 ELSE /\ NextSet
                      /\ UNCHANGED syncErr
    /\ UNCHANGED <<worktree, otherModuleSetNames, allModuleSets, skipModTidy,
                   worktree0, headTree0, upToDate, tidyRuns, tidyWarnings>>
    /\ UNCHANGED rerunVars
    /\ UNCHANGED iter
    /\ UNCHANGED tagVars
    /\ UNCHANGED indexVars
    /\ UNCHANGED concVars

\* sync.Run is invoked a second time with the arguments of the first, on the
\* repository the first left when it returned without error.
SyncRerun ==
    /\ syncPc = "done"
    /\ run = 1
    /\ run' = 2
    /\ syncPc' = "start"
    /\ setIdx' = 0
    /\ otherModuleSetNames' = IF allModuleSets THEN <<>> ELSE otherModuleSetNames
    /\ worktree0' = worktree
    /\ headTree0' = headTree
    /\ branches0' = branches
    /\ commits0' = commits
    /\ upToDate' = [n \in OtherSetNames |-> NotSeen]
    /\ tidyRuns' = <<>>
    /\ tidyWarnings' = <<>>
    /\ UNCHANGED <<worktree, headTree, branch, branches, commits, allModuleSets,
                   skipModTidy, syncErr>>
    /\ UNCHANGED iter
    /\ UNCHANGED tagVars
    /\ UNCHANGED indexVars
    /\ UNCHANGED concVars

\* Neither operation of the other specification runs.
TagIdle ==
    /\ tags = [n \in AllTagNames |-> NoTag] /\ tags0 = tags
    /\ ModSetName = "mod-set-1"
    /\ ModSet = [Version |-> ModSetVersions[ModSetName], Modules |-> <<>>]
    /\ modFullTags = <<>>
    /\ commitHash = <<3>>
    /\ deleteModuleSetTags = FALSE
    /\ pc = "idle"
    /\ CommitHash = ZeroHash
    /\ addedFullTags = <<>> /\ newFullTag = "" /\ createErr = NilErr
    /\ delTags = <<>> /\ fatalErr = NilErr /\ verifyErr = NotCalled
    /\ lookupFault = 0 /\ delCalls = <<>> /\ delTagsErr = NilErr
    /\ storageFault = FALSE

SyncIdle ==
    /\ headTree = CHOOSE t \in StartTrees : TRUE
    /\ worktree = headTree /\ worktree0 = worktree /\ headTree0 = headTree
    /\ branch = "main" /\ branches = {"main"} /\ commits = <<>>
    /\ allModuleSets = FALSE /\ otherModuleSetNames = <<>>
    /\ skipModTidy = FALSE
    /\ syncPc = "idle" /\ setIdx = 0 /\ syncErr = NilErr
    /\ upToDate = [n \in OtherSetNames |-> NotSeen]
    /\ tidyRuns = <<>> /\ tidyWarnings = <<>>
    /\ run = 1 /\ branches0 = branches /\ commits0 = commits
    /\ iter = [tree |-> worktree, written |-> {}]

(***************************************************************************)
(* The versioning index (ModuleInfoMap) and the release struct of a set.   *)
(***************************************************************************)
RECURSIVE SeqsUpTo(_, _)
\* The sequences of at most n elements of S.
SeqsUpTo(S, n) ==
    IF n = 0 THEN {<<>>}
    ELSE {<<>>} \cup {<<x>> \o q : x \in S, q \in SeqsUpTo(S, n - 1)}

\* fmt.Errorf("module %v exists more than once (exists in sets %v and %v)")
errDuplicateModule(modPath, firstSet, secondSet) ==
    [kind |-> "module exists more than once", modPath |-> modPath,
     firstSet |-> firstSet, secondSet |-> secondSet]

ModuleInfo(setName, version) == [ModuleSetName |-> setName, Version |-> version]

\* The set and the module the loops are at (setName, moduleSet, modPath).
curSetName == setOrder[setPos]

curModuleSet == modSetMap[curSetName]

curModPath == curModuleSet.Modules[modPos]

\* Only a path the set being read has listed itself counts as added.
AlreadyAdded_sameSetOnly ==
    /\ curModPath \in DOMAIN modInfoMap
    /\ modInfoMap[curModPath].ModuleSetName = curSetName

\* if _, exists := modInfoMap[modPath]; exists
AlreadyAdded == curModPath \in DOMAIN modInfoMap

\* The manifest: every set of the fixture with a list of module paths, and
\* the order in which the range over the map of sets visits them.
IndexInit ==
    /\ \E ms \in [ModSetNames -> SeqsUpTo(ModulePaths, MaxMods)] :
          modSetMap = [n \in ModSetNames |->
                          [Version |-> ModSetVersions[n], Modules |-> ms[n]]]
    /\ setOrder \in DistinctSeqs(ModSetNames, Cardinality(ModSetNames))
    /\ Len(setOrder) = Cardinality(ModSetNames)
    /\ setPos = 0
    /\ modPos = 0
    /\ modInfoMap = <<>>
    /\ indexErr = NilErr
    /\ indexPc = "index"
    /\ modSetToUpdate = ""
    /\ TagNames = <<>>
    /\ FullTagNames = <<>>

IndexIdle ==
    /\ modSetMap = [n \in ModSetNames |->
                       [Version |-> ModSetVersions[n], Modules |-> <<>>]]
    /\ setOrder = <<>>
    /\ setPos = 0 /\ modPos = 0
    /\ modInfoMap = <<>>
    /\ indexErr = NilErr
    /\ indexPc = "idle"
    /\ modSetToUpdate = ""
    /\ TagNames = <<>>
    /\ FullTagNames = <<>>

\* for setName, moduleSet := range modSetMap: the next set, or the end of
\* the outer loop, after which the ModuleVersioning is returned.
RangeModuleSets ==
    /\ indexPc = "index"
    /\ IF setPos = 0 THEN TRUE ELSE modPos > Len(curModuleSet.Modules)
    /\ IF setPos = Len(setOrder)
       THEN /\ indexPc' = "built"
            /\ UNCHANGED <<setPos, modPos>>
       ELSE /\ setPos' = setPos + 1
            /\ modPos' = 1
            /\ UNCHANGED indexPc
    /\ UNCHANGED <<modSetMap, setOrder, modInfoMap, indexErr, modSetToUpdate,
                   TagNames, FullTagNames>>
    /\ UNCHANGED tagVars
    /\ UNCHANGED syncVars
    /\ UNCHANGED concVars

\* for _, modPath := range moduleSet.Modules: one module.
AddModule ==
    /\ indexPc = "index"
    /\ setPos > 0 /\ modPos <= Len(curModuleSet.Modules)
    /\ IF AlreadyAdded
       THEN /\ indexErr' = errDuplicateModule(curModPath,
                               modInfoMap[curModPath].ModuleSetName, curSetName)
            /\ indexPc' = "fatal"
            /\ UNCHANGED <<modInfoMap, modPos>>
       ELSE /\ modInfoMap' =
                  (curModPath :> ModuleInfo(curSetName, curModuleSet.Version))
                      @@ modInfoMap
            /\ modPos' = modPos + 1
            /\ UNCHANGED <<indexErr, indexPc>>
    /\ UNCHANGED <<modSetMap, setOrder, setPos, modSetToUpdate, TagNames,
                   FullTagNames>>
    /\ UNCHANGED tagVars
    /\ UNCHANGED syncVars
    /\ UNCHANGED concVars

\* ModulePathsToTagNames: the tag name of every module, in order.
ModulePathsToTagNames(modules) ==
    [i \in 1..Len(modules) |-> ModuleTagName(modules[i])]

\* The first set of the manifest, whichever set is asked for.
releasedModSet_first(n) == modSetMap[CHOOSE m \in DOMAIN modSetMap : TRUE]

\* modSet := modSetMap[modSetToUpdate]
releasedModSet(n) == modSetMap[n]

\* The release struct of one set of the manifest, and its full tag names.
NewModuleSetRelease ==
    /\ indexPc = "built"
    /\ \E n \in DOMAIN modSetMap :
          /\ modSetToUpdate' = n
          /\ TagNames' = ModulePathsToTagNames(releasedModSet(n).Modules)
          /\ FullTagNames' =
                ModuleFullTagNames(releasedModSet(n).Modules,
                                   releasedModSet(n).Version)
    /\ indexPc' = "released"
    /\ UNCHANGED <<modSetMap, setOrder, setPos, modPos, modInfoMap, indexErr>>
    /\ UNCHANGED tagVars
    /\ UNCHANGED syncVars
    /\ UNCHANGED concVars

(***************************************************************************)
(* Two tag.Run processes without the delete flag, for the same module set  *)
(* and revision, on one repository.  Every call into the repository is one *)
(* step, except repo.CreateTag, which looks the reference up and, in a     *)
(* later step, writes it with Storer.SetReference: the other process can   *)
(* act in between.                                                         *)
(***************************************************************************)
Procs == {1, 2}

OtherProc(p) == CHOOSE q \in Procs : q # p

\* The tag the loop of the run is at.
RunNextFullTag(p) == modFullTags[Len(runAdded[p]) + 1]

\* The rollback of a run that deletes every full tag name of the set.
runTagsToRollBack_wholeSet(p) == modFullTags

\* The list a run hands to deleteTags after a failed CreateTag: its own
\* addedFullTags.
runTagsToRollBack(p) == runAdded[p]

ConcInit ==
    /\ deleteModuleSetTags = FALSE
    /\ ModSetName \in ModSetNames
    /\ \E ms \in DistinctSeqs(ModulePaths, MaxTags) \ {<<>>} :
          ModSet = [Version |-> ModSetVersions[ModSetName], Modules |-> ms]
    /\ modFullTags = ModuleFullTagNames(ModSet.Modules, ModSet.Version)
    /\ commitHash \in Revisions
    /\ \E n \in {modFullTags[i] : i \in 1..Len(modFullTags)} \cup {UnrelatedTag} :
          tags = Namespace(IF n = UnrelatedTag THEN <<>>
                           ELSE (n :> AnnotatedTag(<<1, 2>>, "old")))
    /\ tags0 = tags
    /\ pc = "idle"
    /\ CommitHash = getFullCommitHash(commitHash).hash
    /\ addedFullTags = <<>> /\ newFullTag = "" /\ createErr = NilErr
    /\ delTags = <<>> /\ fatalErr = NilErr /\ verifyErr = NotCalled
    /\ lookupFault = 0 /\ delCalls = <<>> /\ delTagsErr = NilErr
    /\ storageFault = FALSE
    /\ runPc = [p \in Procs |-> "newTagger"]
    /\ runAdded = [p \in Procs |-> <<>>]
    /\ runDelTags = [p \in Procs |-> <<>>]
    /\ runErr = [p \in Procs |-> NilErr]
    /\ createdBy = [n \in AllTagNames |-> 0]
    /\ deletedOf = [p \in Procs |-> {}]
    /\ overwritten = FALSE
    /\ rollbackFailed = FALSE

ConcIdle ==
    /\ runPc = [p \in Procs |-> "idle"]
    /\ runAdded = [p \in Procs |-> <<>>]
    /\ runDelTags = [p \in Procs |-> <<>>]
    /\ runErr = [p \in Procs |-> NilErr]
    /\ createdBy = [n \in AllTagNames |-> 0]
    /\ deletedOf = [p \in Procs |-> {}]
    /\ overwritten = FALSE
    /\ rollbackFailed = FALSE

\* What the concurrent runs leave alone of the state of a single tag.Run.
tagArgs == <<ModSetName, ModSet, modFullTags, commitHash, deleteModuleSetTags,
             pc, CommitHash, addedFullTags, newFullTag, createErr, delTags,
             fatalErr, verifyErr, lookupFault, tags0, delCalls, delTagsErr,
             storageFault>>

\* tag.Run of one process up to tagAllModules: newTagger.
RunVerify(p) ==
    /\ runPc[p] = "newTagger"
    /\ \E releaseOk \in BOOLEAN :
          LET t == newTagger(modFullTags, tags, commitHash, FALSE, releaseOk, 0)
          IN  IF t.err # NilErr
              THEN /\ runPc' = [runPc EXCEPT ![p] = "fatal"]
                   /\ runErr' = [runErr EXCEPT ![p] =
                                    Wrap("Error creating new tagger struct", t.err)]
              ELSE /\ runPc' = [runPc EXCEPT ![p] = "CreateTag"]
                   /\ UNCHANGED runErr
    /\ UNCHANGED <<tags, runAdded, runDelTags, createdBy, deletedOf, overwritten,
                   rollbackFailed>>
    /\ UNCHANGED tagArgs
    /\ UNCHANGED syncVars
    /\ UNCHANGED indexVars

\* After a failed CreateTag: the rollback, or the error at once when the
\* run has created no tag yet.  Gives runPc, runDelTags, runErr.
RunCreateFailed(p, err) ==
    IF Len(runTagsToRollBack(p)) = 0
    THEN /\ runPc' = [runPc EXCEPT ![p] = "fatal"]
         /\ runErr' = [runErr EXCEPT ![p] =
                          Wrap("unable to tag modules",
                               tagAllModulesError(RunNextFullTag(p), err, NilErr))]
         /\ UNCHANGED runDelTags
    ELSE /\ runPc' = [runPc EXCEPT ![p] = "rollback"]
         /\ runDelTags' = [runDelTags EXCEPT ![p] = runTagsToRollBack(p)]
         /\ runErr' = [runErr EXCEPT ![p] =
                          tagAllModulesError(RunNextFullTag(p), err, NilErr)]

\* repo.CreateTag, first half: the reference is looked up.
RunTagExists(p) ==
    /\ runPc[p] = "CreateTag"
    /\ \E storageOk \in BOOLEAN :
          IF Exists(tags, RunNextFullTag(p))
          THEN RunCreateFailed(p, ErrTagExists)
          ELSE IF ~storageOk
          THEN RunCreateFailed(p, ErrStorage)
          ELSE /\ runPc' = [runPc EXCEPT ![p] = "SetReference"]
               /\ UNCHANGED <<runDelTags, runErr>>
    /\ UNCHANGED <<tags, runAdded, createdBy, deletedOf, overwritten,
                   rollbackFailed>>
    /\ UNCHANGED tagArgs
    /\ UNCHANGED syncVars
    /\ UNCHANGED indexVars

\* repo.CreateTag, second half: the tag object and the reference are
\* written; then addedFullTags = append(addedFullTags, newFullTag).
RunSetReference(p) ==
    /\ runPc[p] = "SetReference"
    /\ \E storageOk \in BOOLEAN :
          IF ~storageOk
          THEN /\ RunCreateFailed(p, ErrStorage)
               /\ UNCHANGED <<tags, runAdded, createdBy, overwritten>>
          ELSE /\ tags' = [tags EXCEPT ![RunNextFullTag(p)] =
                              AnnotatedTag(CommitHash,
                                           tagMessage(ModSetName, ModSet.Version))]
               /\ createdBy' = [createdBy EXCEPT ![RunNextFullTag(p)] = p]
               /\ overwritten' = (overwritten \/ Exists(tags, RunNextFullTag(p)))
               /\ runAdded' = [runAdded EXCEPT ![p] = Append(@, RunNextFullTag(p))]
               /\ runPc' = [runPc EXCEPT ![p] =
                               IF Len(runAdded'[p]) = Len(modFullTags)
                               THEN "done" ELSE "CreateTag"]
               /\ UNCHANGED <<runDelTags, runErr>>
    /\ UNCHANGED <<deletedOf, rollbackFailed>>
    /\ UNCHANGED tagArgs
    /\ UNCHANGED syncVars
    /\ UNCHANGED indexVars

\* The rollback of one process: one iteration of deleteTags.
RunRollback(p) ==
    /\ runPc[p] = "rollback"
    /\ \E storageOk \in BOOLEAN :
          LET d == deleteTagsStep(tags, runDelTags[p], storageOk)
              name == Head(runDelTags[p])
          IN  /\ tags' = d.repo
              /\ runDelTags' = [runDelTags EXCEPT ![p] = d.rest]
              /\ rollbackFailed' = (rollbackFailed \/ d.err # NilErr)
              /\ deletedOf' = [deletedOf EXCEPT ![p] =
                                  IF d.err = NilErr THEN @ \cup {createdBy[name]}
                                  ELSE @]
              /\ createdBy' = [createdBy EXCEPT ![name] =
                                  IF d.err = NilErr THEN 0 ELSE @]
              /\ IF d.returned
                 THEN /\ runPc' = [runPc EXCEPT ![p] = "fatal"]
                      /\ runErr' = [runErr EXCEPT ![p] =
                                       Wrap("unable to tag modules",
                                            tagAllModulesError(runErr[p].tag,
                                                               runErr[p].cause, d.err))]
                 ELSE UNCHANGED <<runPc, runErr>>
    /\ UNCHANGED <<runAdded, overwritten>>
    /\ UNCHANGED tagArgs
    /\ UNCHANGED syncVars
    /\ UNCHANGED indexVars

Init == TagInit /\ SyncIdle /\ IndexIdle /\ ConcIdle

Next == RunNewTagger \/ TagModule \/ Rollback \/ DeleteModuleSetTags

\* The tag operation, run once on a repository nobody else writes to.
Spec == Init /\ [][Next]_vars

SyncRunInit == SyncInit /\ TagIdle /\ IndexIdle /\ ConcIdle

SyncNext == SyncStart \/ SyncUpdate \/ SyncCheck \/ SyncTidy \/ SyncCommit

\* The sync operation, run once.
SyncSpec == SyncRunInit /\ [][SyncNext]_vars

ManifestInit == IndexInit /\ TagIdle /\ SyncIdle /\ ConcIdle

ManifestNext == RangeModuleSets \/ AddModule \/ NewModuleSetRelease

\* The versioning index is built from a manifest, then a set is released.
ManifestSpec == ManifestInit /\ [][ManifestNext]_vars

ConcRunInit == ConcInit /\ SyncIdle /\ IndexIdle

ConcNext ==
    \E p \in Procs :
        RunVerify(p) \/ RunTagExists(p) \/ RunSetReference(p) \/ RunRollback(p)

\* Two tag.Run processes, interleaved call by call.
ConcSpec == ConcRunInit /\ [][ConcNext]_vars

SyncTwiceNext == SyncNext \/ SyncRerun

\* The sync operation, run a second time after it has succeeded.
SyncTwiceSpec == SyncRunInit /\ [][SyncTwiceNext]_vars

(***************************************************************************)
(* Properties of the tag operation.                                        *)
(***************************************************************************)
InSeq(x, q) == \E i \in 1..Len(q) : q[i] = x

\* The commit the revision of the command line stands for.
Resolves == \E c \in Commits : IsPrefix(commitHash, c)

TargetCommit ==
    IF Resolves THEN CHOOSE c \in Commits : IsPrefix(commitHash, c) ELSE ZeroHash

NoneOfSetExists == \A n \in TagNameSet : ~Exists(tags, n)

\* C1: when the creation of the k-th tag fails and every rollback deletion
\* succeeds, tagAllModules returns its error with the k-1 tags created
\* earlier deleted again, so that no full tag name of the set exists.
C1_RollbackLeavesNoTag ==
    (pc = "fatal" /\ createErr # NilErr /\ delTagsErr = NilErr)
        => /\ delCalls = addedFullTags
           /\ NoneOfSetExists
           /\ tags = tags0

C1_Witness ==
    /\ pc = "fatal" /\ createErr # NilErr /\ delTagsErr = NilErr
    /\ Len(modFullTags) = 3 /\ Len(addedFullTags) = 2 /\ Len(delCalls) = 2

\* C2: without the delete flag, a full tag name of the set that already
\* exists makes the operation fail in newTagger, before tagAllModules runs:
\* no tag is created or deleted, the namespace stays what it was.
C2_CreatePathVerification ==
    (~deleteModuleSetTags /\ \E n \in TagNameSet : Exists(tags0, n))
        => /\ pc \in {"newTagger", "fatal"}
           /\ tags = tags0
           /\ addedFullTags = <<>>
           /\ delCalls = <<>>

C2_Witness ==
    /\ pc = "fatal" /\ ~deleteModuleSetTags
    /\ fatalErr # NilErr /\ fatalErr.cause.kind = "wrapped"
    /\ fatalErr.cause.msg = "VerifyGitTagsDoNotAlreadyExist failed"
    /\ fatalErr.cause.cause.kind = "errGitTagsAlreadyExist"
    /\ \E n \in TagNameSet : ~Exists(tags0, n)

\* A full tag name of the set that exists on another commit than the target.
OffTarget(n) == Exists(tags0, n) /\ tags0[n].commit # TargetCommit

\* C3: with the delete flag, one existing full tag name of the set on
\* another commit than the target makes verification fail, and then no tag
\* at all is deleted, not even those of the set that are on the target.
C3_DeleteVerificationAtomic ==
    (deleteModuleSetTags /\ Resolves /\ \E n \in TagNameSet : OffTarget(n))
        => /\ pc \in {"newTagger", "fatal"}
           /\ tags = tags0
           /\ delCalls = <<>>

C3_Witness ==
    /\ pc = "fatal" /\ deleteModuleSetTags
    /\ verifyErr.kind = "errGitTagsNotOnCommit"
    /\ \E n \in TagNameSet : tags[n] = AnnotatedTag(TargetCommit, "old")
    /\ \E n \in TagNameSet : OffTarget(n)

\* The full tag names of the set that exist on another commit than the
\* target, in declaration order.
Offending == SelectSeq(modFullTags, OffTarget)

\* C4 as stated: whenever verifyTagsOnCommit has run, it returned the error
\* listing exactly the offending tags, or nil when there is none.
C4_ListsAllOffending ==
    verifyErr # NotCalled
        => verifyErr = IF Len(Offending) = 0 THEN NilErr
                       ELSE errGitTagsNotOnCommit(TargetCommit, Offending)

\* The lookup of position i cannot be completed: repo.Tag fails in the
\* store, the tag has no tag object, or its tag object holds no commit.
LookupFails(i) ==
    \/ i = lookupFault
    \/ tags0[modFullTags[i]].kind \in {"lightweight", "annotated-tree"}

FailedLookups == {i \in 1..Len(modFullTags) : LookupFails(i)}

FirstFailedLookup == CHOOSE i \in FailedLookups : \A j \in FailedLookups : i <= j

\* The annotated tags of the set that sit on another commit than the target.
OffendingAnnotated ==
    SelectSeq(modFullTags,
              LAMBDA n : tags0[n].kind = "annotated" /\ tags0[n].commit # TargetCommit)

\* C4, amended: when every lookup completes, verifyTagsOnCommit returns the
\* error listing exactly the existing tags of the set that are on another
\* commit, in declaration order, or nil when there is none; when a lookup
\* fails, it returns at the first such tag a plain error that lists no tags.
C4_ListsAllOffendingUnlessLookupFails ==
    verifyErr # NotCalled
        => IF FailedLookups = {}
           THEN verifyErr = IF Len(OffendingAnnotated) = 0 THEN NilErr
                            ELSE errGitTagsNotOnCommit(TargetCommit, OffendingAnnotated)
           ELSE LET n == modFullTags[FirstFailedLookup]
                IN  verifyErr =
                      IF FirstFailedLookup = lookupFault
                      THEN WrapTag("unable to fetch git tag ref for", n, ErrStorage)
                      ELSE IF tags0[n].kind = "lightweight"
                      THEN Wrap("unable to get tag object", ErrObjectNotFound)
                      ELSE Wrap("could not get tag object commit", ErrObjectNotFound)

\* Two offending tags around one that is absent, all listed.
C4_Witness ==
    /\ verifyErr.kind = "errGitTagsNotOnCommit"
    /\ Len(verifyErr.tagNames) = 2
    /\ \E n \in TagNameSet : ~Exists(tags0, n)

\* C5 as stated: after a delete operation whose verification passed and in
\* which no call into the store failed, no full tag name of the set exists.
C5_DeleteRemovesAll ==
    (deleteModuleSetTags /\ verifyErr = NilErr /\ ~storageFault
     /\ pc \in {"done", "fatal"})
        => NoneOfSetExists

\* The tags of the set this run has created and not deleted.
Created(i) == Exists(tags, modFullTags[i]) /\ ~Exists(tags0, modFullTags[i])

CreatedIsPrefix ==
    (~deleteModuleSetTags /\ pc \in {"tagAllModules", "done"})
        => \E k \in 0..Len(modFullTags) :
              \A i \in 1..Len(modFullTags) : Created(i) <=> i <= k

\* A step of tagAllModules creates at most one tag, the one after the last.
OneAtATime ==
    pc = "tagAllModules"
        => \A i \in 1..Len(modFullTags) :
              (~Created(i) /\ Created(i)')
                  => /\ i = 1 \/ Created(i - 1)
                     /\ \A j \in 1..Len(modFullTags) :
                           j # i => (Created(j)' <=> Created(j))

\* C6: up to a failure the tags created by this run are a prefix of the
\* list of full tag names, and they are created one at a time in that
\* order, the tag at position i never before the one at position i-1.
C6_CreatedInDeclarationOrder == []CreatedIsPrefix /\ [][OneAtATime]_tagVars

C6_Witness ==
    /\ pc = "tagAllModules" /\ Len(modFullTags) = 3
    /\ Created(1) /\ Created(2) /\ ~Created(3)

\* C7: when tagAllModules returns without error, every full tag name of the
\* set exists on the commit the given revision resolves to, with the message
\* "Module set <name>, Version <version>", and every other tag is untouched.
C7_TaggingPostcondition ==
    (pc = "done" /\ ~deleteModuleSetTags)
        => /\ \A n \in TagNameSet :
                /\ tags[n].kind = "annotated"
                /\ IsPrefix(commitHash, tags[n].commit)
                /\ tags[n].commit \in Commits
                /\ tags[n].message =
                     IF ModSetName = "mod-set-1"
                     THEN "Module set mod-set-1, Version v1.2.3-RC1+meta"
                     ELSE "Module set mod-set-2, Version v0.1.0"
           /\ \A n \in AllTagNames \ TagNameSet : tags[n] = tags0[n]

C7_Witness ==
    /\ pc = "done" /\ ~deleteModuleSetTags
    /\ Len(commitHash) < Len(CommitHash)
    /\ Len(modFullTags) = 3
    /\ Exists(tags, UnrelatedTag)

\* C8: when a creation fails and a rollback deletion fails too, the error
\* of tagAllModules names the tag whose creation failed and carries the
\* creation error, next to the rollback error.
C8_RollbackFailureKeepsOriginal ==
    (pc = "fatal" /\ delTagsErr # NilErr)
        => /\ fatalErr.cause.kind = "git tag failed"
           /\ fatalErr.cause.tag = newFullTag
           /\ newFullTag = modFullTags[Len(addedFullTags) + 1]
           /\ fatalErr.cause.cause = createErr
           /\ createErr # NilErr
           /\ fatalErr.cause.rollback = delTagsErr

C8_Witness ==
    /\ pc = "fatal" /\ delTagsErr # NilErr
    /\ Len(delCalls) = 2
    /\ delTagsErr.tag # newFullTag

\* C15 as stated: when a creation has failed and tagAllModules has returned,
\* a deletion has been attempted for each tag created earlier in the run,
\* whether or not a rollback deletion failed.
C15_RollbackAttemptsAll ==
    (pc = "fatal" /\ createErr # NilErr)
        => \A i \in 1..Len(addedFullTags) : InSeq(addedFullTags[i], delCalls)

\* deleteTags(list) has returned the error of the deletion at position i.
AbortedAt(list, i, err) ==
    /\ delCalls = SubSeq(list, 1, i)
    /\ delTags = <<>>
    /\ err.kind = "wrapped" /\ err.msg = "could not delete tag"
    /\ err.tag = list[i]
    /\ err.cause \in {ErrTagNotFound, ErrStorage}
    /\ \A j \in 1..(i - 1) : ~Exists(tags, list[j])

\* C16: when the deletion of the i-th name of the list fails, deleteTags
\* returns at once the error that names that tag: the tags before position i
\* are gone and stay gone, and the tags after it have not been touched, as
\* no DeleteTag call has been made for them.  This holds for the deletion
\* of a set's tags and for the rollback of tagAllModules alike.
C16_DeletionAbortsAtFirstFailure ==
    /\ (deleteModuleSetTags /\ pc = "fatal" /\ Len(delCalls) > 0)
          => /\ AbortedAt(modFullTags, Len(delCalls), fatalErr.cause.cause)
             /\ \A j \in 1..(Len(delCalls) - 1) : Exists(tags0, modFullTags[j])
             /\ \A j \in Len(delCalls)..Len(modFullTags) :
                   tags[modFullTags[j]] = tags0[modFullTags[j]]
    /\ (~deleteModuleSetTags /\ pc = "fatal" /\ delTagsErr # NilErr)
          => /\ AbortedAt(addedFullTags, Len(delCalls), delTagsErr)
             /\ \A j \in Len(delCalls)..Len(addedFullTags) :
                   tags[addedFullTags[j]] =
                      AnnotatedTag(CommitHash, tagMessage(ModSetName, ModSet.Version))

\* The second of three deletions fails: the first tag is gone, the third
\* is still there.
C16_Witness ==
    /\ deleteModuleSetTags /\ pc = "fatal"
    /\ Len(modFullTags) = 3 /\ Len(delCalls) = 2
    /\ Exists(tags0, modFullTags[1]) /\ ~Exists(tags, modFullTags[1])
    /\ Exists(tags, modFullTags[2])
    /\ Exists(tags, modFullTags[3])

\* C20: without the delete flag, DeleteTag is called only in the rollback
\* after a failed CreateTag and only for tags this run has created, so every
\* tag that existed when the run started is still what it was.
C20_CreatePathDeletesOnlyItsOwn ==
    ~deleteModuleSetTags =>
        /\ \A i \in 1..Len(delCalls) :
              /\ InSeq(delCalls[i], addedFullTags)
              /\ ~Exists(tags0, delCalls[i])
        /\ \A i \in 1..Len(delTags) : InSeq(delTags[i], addedFullTags)
        /\ \A i \in 1..Len(addedFullTags) : ~Exists(tags0, addedFullTags[i])
        /\ \A n \in AllTagNames : Exists(tags0, n) => tags[n] = tags0[n]
        /\ (delCalls # <<>> \/ delTags # <<>>)
              => (pc \in {"rollback", "fatal"} /\ createErr # NilErr)

\* A rollback has deleted the two tags of the run; the tag that was there
\* before the run is untouched.
C20_Witness ==
    /\ ~deleteModuleSetTags /\ pc = "fatal"
    /\ Len(delCalls) = 2 /\ delTagsErr = NilErr
    /\ Exists(tags0, UnrelatedTag) /\ tags[UnrelatedTag] = tags0[UnrelatedTag]
    /\ \A i \in 1..2 : ~Exists(tags, delCalls[i])

(***************************************************************************)
(* Properties of the sync operation.                                       *)
(***************************************************************************)
\* C9: when the working tree has a modification as sync.Run starts, the run
\* aborts before any module set is processed: no go.mod file is rewritten,
\* no branch is created, no commit is made.
C9_CleanTreePrecondition ==
    worktree0 # headTree0
        => /\ syncPc \in {"start", "fatal"}
           /\ setIdx = 0
           /\ worktree = worktree0
           /\ headTree = headTree0
           /\ branches = {"main"} /\ branch = "main"
           /\ commits = <<>>
           /\ tidyRuns = <<>>
           /\ \A n \in OtherSetNames : upToDate[n] = NotSeen

C9_Witness ==
    /\ syncPc = "fatal"
    /\ worktree0 # headTree0
    /\ syncErr = Wrap("VerifyWorkingTreeClean failed", [kind |-> "errWorkingTreeNotClean"])
    /\ Len(otherModuleSetNames) = 2

\* The branch of a foreign set, and whether the run has committed on it.
SyncBranch(n) == "sync_" \o n \o "_" \o OtherModSetMap[n].Version

Committed(n) == \E k \in 1..Len(commits) : commits[k].branch = SyncBranch(n)

\* C10: a set whose rewrite leaves the working tree clean gets no go mod
\* tidy, no branch and no commit, and the loop goes on to the next set; a
\* branch and a commit exist for a set only if its rewrite changed the tree.
C10_SkipsSyncedSet ==
    \A i \in 1..Len(otherModuleSetNames) :
        LET n == otherModuleSetNames[i]
        IN  /\ (upToDate[n].seen /\ upToDate[n].clean)
                 => /\ ~InSeq(n, tidyRuns)
                    /\ SyncBranch(n) \notin branches
                    /\ ~Committed(n)
                    /\ setIdx = i => syncPc \in {"check", "fatal"}
                    /\ (setIdx = i /\ syncPc = "fatal")
                         => syncErr = Wrap("could not get worktree status", ErrStorage)
            /\ (Committed(n) \/ SyncBranch(n) \in branches)
                 => /\ upToDate[n].seen
                    /\ upToDate[n].rewritten
                    /\ ~upToDate[n].clean
                    /\ Committed(n) /\ SyncBranch(n) \in branches

\* The first set is skipped, the second one committed.
C10_Witness ==
    /\ syncPc = "done"
    /\ Len(otherModuleSetNames) = 2
    /\ upToDate[otherModuleSetNames[1]].clean
    /\ Committed(otherModuleSetNames[2])
    /\ Len(commits) = 1

\* The sets the run has been given, all of them processed.
AllProcessed ==
    \A i \in 1..Len(otherModuleSetNames) : upToDate[otherModuleSetNames[i]].seen

\* C11: in a second sync run with the inputs of a first one that succeeded,
\* no file of the working tree changes, no branch is created, no commit is
\* made and go mod tidy is not run: every set is found up to date.
C11_SecondRunChangesNothing ==
    run = 2
        => /\ worktree = worktree0
           /\ headTree = headTree0
           /\ branches = branches0
           /\ commits = commits0
           /\ tidyRuns = <<>>
           /\ \A n \in OtherSetNames : upToDate[n].seen => upToDate[n].clean
           /\ syncPc \notin {"tidy", "commit"}

\* The first run has committed for two sets, the second run has finished.
C11_Witness ==
    /\ run = 2 /\ syncPc = "done"
    /\ Len(commits0) = 2
    /\ Len(otherModuleSetNames) >= 2
    /\ AllProcessed

\* The step in which updateAllGoModFiles returns without error.
UpdateSucceeds == syncPc = "update" /\ syncPc' = "check"

\* C12: when updateAllGoModFiles succeeds for a foreign set of version v,
\* every requirement of every local go.mod file on a module of the set is at
\* v afterwards, and every other requirement, and everything else in the
\* working tree, is what it was.
C12_RewriteFrame ==
    [][UpdateSucceeds =>
         /\ \A f \in MyModFiles : \A d \in Deps :
               worktree'.gomod[f][d] =
                  IF d \in OtherModuleSet.Modules /\ worktree.gomod[f][d] # ""
                  THEN OtherModuleSet.Version
                  ELSE worktree.gomod[f][d]
         /\ worktree'.gosum = worktree.gosum
         /\ worktree'.other = worktree.other]_vars

\* Both local go.mod files required a module of the first set at an old
\* version and have been rewritten; the third-party requirement stands.
C12_Witness ==
    /\ syncPc = "check" /\ setIdx = 1 /\ run = 1
    /\ \A f \in MyModFiles :
          \E d \in OtherModuleSet.Modules :
             /\ worktree0.gomod[f][d] = "v0.9.0"
             /\ worktree.gomod[f][d] = OtherModuleSet.Version
    /\ worktree.gomod["go.mod"][ThirdParty] = "v0.9.0"

(***************************************************************************)
(* Properties of the versioning index and of the tag names.                *)
(***************************************************************************)
\* How often the set lists the path.
Listings(n, p) ==
    Cardinality({i \in 1..Len(modSetMap[n].Modules) : modSetMap[n].Modules[i] = p})

RECURSIVE SumOver(_, _)
SumOver(S, f) ==
    IF S = {} THEN 0
    ELSE LET x == CHOOSE y \in S : TRUE IN f[x] + SumOver(S \ {x}, f)

\* The total count of module paths across all sets.
TotalCount == SumOver(ModSetNames, [n \in ModSetNames |-> Len(modSetMap[n].Modules)])

InTwoSets(p) ==
    \E m, n \in ModSetNames : m # n /\ Listings(m, p) > 0 /\ Listings(n, p) > 0

ListedTwice(p) == SumOver(ModSetNames, [n \in ModSetNames |-> Listings(n, p)]) > 1

IndexReturned == indexPc \in {"built", "released", "fatal"}

\* The index holds one entry per listed path, with the listing set's name
\* and version.
IndexComplete ==
    /\ indexPc # "fatal"
    /\ indexErr = NilErr
    /\ Cardinality(DOMAIN modInfoMap) = TotalCount
    /\ \A n \in ModSetNames : \A i \in 1..Len(modSetMap[n].Modules) :
          /\ modSetMap[n].Modules[i] \in DOMAIN modInfoMap
          /\ modInfoMap[modSetMap[n].Modules[i]] =
                [ModuleSetName |-> n, Version |-> ModSetVersions[n]]

\* C13 as stated: a manifest without a path in two sets gives the complete
\* index; a manifest with a path in two sets gives the error naming the path
\* and the two sets.
C13_IndexOrDuplicateError ==
    IndexReturned =>
        IF \E p \in ModulePaths : InTwoSets(p)
        THEN /\ indexPc = "fatal"
             /\ indexErr.kind = "module exists more than once"
             /\ InTwoSets(indexErr.modPath)
             /\ indexErr.firstSet # indexErr.secondSet
             /\ Listings(indexErr.firstSet, indexErr.modPath) > 0
             /\ Listings(indexErr.secondSet, indexErr.modPath) > 0
        ELSE IndexComplete

\* C13, amended: a manifest that lists no path more than once, in two sets
\* or twice in one, gives the complete index; a manifest that lists some
\* path more than once gives the error naming such a path and the sets of
\* two of its listings, which are one and the same set when the path is
\* repeated inside a set.
C13_IndexUnlessListedTwice ==
    IndexReturned =>
        IF \E p \in ModulePaths : ListedTwice(p)
        THEN /\ indexPc = "fatal"
             /\ indexErr.kind = "module exists more than once"
             /\ ListedTwice(indexErr.modPath)
             /\ Listings(indexErr.firstSet, indexErr.modPath) > 0
             /\ Listings(indexErr.secondSet, indexErr.modPath) > 0
             /\ indexErr.firstSet = indexErr.secondSet
                   => Listings(indexErr.firstSet, indexErr.modPath) > 1
        ELSE IndexComplete

\* A path in both sets is refused with both set names.
C13_Witness ==
    /\ indexPc = "fatal"
    /\ indexErr.firstSet # indexErr.secondSet
    /\ InTwoSets(indexErr.modPath)
    /\ Cardinality(DOMAIN modInfoMap) = 2

\* The directory of each module's go.mod file relative to the repository
\* root, as the tree of the fixture has it ("" for the root itself).
RelativeDir(p) ==
    CASE p = "go.opentelemetry.io/test/test1" -> "test/test1"
      [] p = "go.opentelemetry.io/test/testexcluded" -> "test/test2"
      [] p = "go.opentelemetry.io/test3" -> "test"
      [] p = "go.opentelemetry.io/testroot/v2" -> ""

\* C14: the release struct of a set holds one tag name and one full tag name
\* per module of the set, in the order of the set's module list: the
\* relative directory and <relative directory>/<version>, or the root
\* sentinel and just <version> for the module at the repository root.
C14_TagNameDerivation ==
    indexPc = "released" =>
        LET modules == modSetMap[modSetToUpdate].Modules
            version == ModSetVersions[modSetToUpdate]
        IN  /\ Len(TagNames) = Len(modules)
            /\ Len(FullTagNames) = Len(modules)
            /\ \A i \in 1..Len(modules) :
                  IF RelativeDir(modules[i]) = ""
                  THEN /\ TagNames[i] = "REPOROOTTAG"
                       /\ FullTagNames[i] = version
                  ELSE /\ TagNames[i] = RelativeDir(modules[i])
                       /\ FullTagNames[i] = RelativeDir(modules[i]) \o "/" \o version

\* The root module and a nested one, in that order.
C14_Witness ==
    /\ indexPc = "released"
    /\ modSetToUpdate = "mod-set-1"
    /\ modSetMap[modSetToUpdate].Modules =
          <<"go.opentelemetry.io/testroot/v2", "go.opentelemetry.io/test/test1">>
    /\ FullTagNames = <<"v1.2.3-RC1+meta", "test/test1/v1.2.3-RC1+meta">>
    /\ TagNames = <<RepoRootTag, "test/test1">>

\* The run has ended in a failure of the rewrite, of the status check or of
\* the commit of the set the loop was at.
FailedAfterRewrite ==
    /\ syncPc = "fatal" /\ setIdx >= 1
    /\ \/ syncErr.msg = "updateAllGoModFiles failed"
       \/ syncErr.msg = "could not get worktree status"
       \/ syncErr.msg = "commitChangesToNewBranch failed"

\* The go.mod files as the iteration's rewrite has left them.
RewrittenGoMod ==
    UpdateGoModFiles(iter.tree.gomod, iter.written, OtherModuleSet.Modules,
                     OtherModuleSet.Version)

\* C17 as stated: when the run has failed after go.mod files were rewritten,
\* the go.mod files are what they were when the iteration started.
C17_UnwindsOnFailure ==
    FailedAfterRewrite => worktree.gomod = iter.tree.gomod

\* C17, amended: when the rewrite, the status check or the commit of a set
\* fails, the run ends there and nothing is undone: the go.mod files hold
\* every rewrite made for the set before the failure, and the branches and
\* commits of the sets processed before stay.
C17_NothingUnwound ==
    /\ FailedAfterRewrite
         => /\ worktree.gomod = RewrittenGoMod
            /\ syncErr.msg # "updateAllGoModFiles failed" => iter.written = MyModFiles
            /\ \A i \in 1..(setIdx - 1) :
                  ~upToDate[otherModuleSetNames[i]].clean
                      => Committed(otherModuleSetNames[i])
    /\ syncPc = "fatal" => ~ENABLED SyncTwiceNext

\* The commit of the second set fails: its rewrite is in the working tree,
\* the commit of the first set is in the repository.
C17_Witness ==
    /\ FailedAfterRewrite
    /\ syncErr.msg = "commitChangesToNewBranch failed"
    /\ setIdx = 2 /\ run = 1
    /\ worktree.gomod # iter.tree.gomod
    /\ Len(commits) = 1

\* The run has reached the commit step of the set, or gone past it.
ReachedCommit(n) ==
    \/ Committed(n)
    \/ /\ moduleSetName = n
       /\ \/ syncPc = "commit"
          \/ syncPc = "fatal" /\ syncErr.msg = "commitChangesToNewBranch failed"

\* C18 as stated: a failure of go mod tidy ends the run like any other
\* error, and no commit is made for the set after it.
C18_EveryErrorFatal ==
    \A i \in 1..Len(tidyWarnings) :
        /\ syncPc = "fatal"
        /\ ~Committed(tidyWarnings[i])

\* C18, amended: every error of a step of sync.Run ends the run, and no
\* step runs after it, except an error of go mod tidy: that one is logged as
\* a warning, it is never the error the run ends with, and the run goes on
\* to commitChangesToNewBranch for the set.
C18_FatalExceptTidy ==
    /\ syncPc = "fatal" <=> syncErr # NilErr
    /\ syncPc = "fatal" => ~ENABLED SyncNext
    /\ \A i \in 1..Len(tidyRuns) : ReachedCommit(tidyRuns[i])
    /\ \A i \in 1..Len(tidyWarnings) : InSeq(tidyWarnings[i], tidyRuns)

\* go mod tidy failed for the one set that needed a rewrite, the commit
\* was made and the run ended without error.
C18_Witness ==
    /\ syncPc = "done" /\ syncErr = NilErr
    /\ Len(tidyWarnings) = 1
    /\ Committed(tidyWarnings[1])
    /\ worktree.gosum # worktree.gomod

\* The branch and the commit message expected for each set.
ExpectedCommit(n) ==
    CASE n = "other-set-1" ->
           [branch |-> "sync_other-set-1_v1.0.0",
            message |-> "Sync repo to use other-set-1 with version v1.0.0"]
      [] n = "other-set-2" ->
           [branch |-> "sync_other-set-2_v2.0.0",
            message |-> "Sync repo to use other-set-2 with version v2.0.0"]
      [] n = "other-set-3" ->
           [branch |-> "sync_other-set-3_v3.0.0",
            message |-> "Sync repo to use other-set-3 with version v3.0.0"]

RECURSIVE ExpectedCommits(_)
\* What the first k sets of the list should have committed, in order.
ExpectedCommits(k) ==
    IF k = 0 THEN <<>>
    ELSE LET n == otherModuleSetNames[k]
         IN  IF upToDate[n].rewritten
             THEN Append(ExpectedCommits(k - 1), ExpectedCommit(n))
             ELSE ExpectedCommits(k - 1)

\* The sets the loop has finished with.
Finished == IF syncPc \in {"start", "fatal"} /\ setIdx = 0 THEN 0 ELSE setIdx - 1

\* C19: the loop takes the sets in the order of the list; each set it has
\* finished with and whose rewrite changed the working tree has exactly one
\* commit, on the new branch sync_<setName>_<version> with the message
\* "Sync repo to use <setName> with version <version>", the other sets have
\* none, and the commits are in the order of the list.
C19_BranchPerSetInOrder ==
    /\ \A i \in 1..Len(otherModuleSetNames) :
          upToDate[otherModuleSetNames[i]].seen <=> (setIdx > 0 /\ i <= setIdx
              /\ (i = setIdx => syncPc \in {"check", "tidy", "commit", "fatal"}
                                /\ (syncPc = "fatal" =>
                                      syncErr.msg \in {"could not get worktree status",
                                                       "commitChangesToNewBranch failed"})))
    /\ [k \in 1..Len(commits) |->
           [branch |-> commits[k].branch, message |-> commits[k].message]]
          = ExpectedCommits(Finished)
    /\ branches = {"main"} \cup {commits[k].branch : k \in 1..Len(commits)}
    /\ Cardinality(branches) = Len(commits) + 1

\* Two sets given in reverse order of their names, both committed.
C19_Witness ==
    /\ syncPc = "done"
    /\ otherModuleSetNames = <<"other-set-2", "other-set-1">>
    /\ Len(commits) = 2
    /\ commits[1].branch = "sync_other-set-2_v2.0.0"
    /\ commits[2].message = "Sync repo to use other-set-1 with version v1.0.0"

\* The set a commit was made for, and the tree the commit was made on.
SetOfCommit(k) == CHOOSE n \in OtherSetNames : SyncBranch(n) = commits[k].branch

ParentTree(k) == IF k = 1 THEN headTree0 ELSE commits[k - 1].tree

\* C21: the working tree is clean whenever an iteration of the loop starts,
\* after a skip as after a commit; HEAD does not move inside an iteration,
\* so the status check of a set sees the rewrite of that set and nothing
\* else; and the go.mod files of each commit differ from those of the
\* commit before only in the requirements on the modules of its own set.
C21_CleanAtEveryIteration ==
    run = 1 =>
      /\ syncPc = "update" => IsClean(worktree, headTree)
      /\ syncPc \in {"check", "tidy", "commit"} =>
            /\ iter.tree = headTree
            /\ worktree.gomod = RewrittenGoMod
            /\ worktree.other = headTree.other
            /\ upToDate[moduleSetName].clean <=> ~upToDate[moduleSetName].rewritten
      /\ \A k \in 1..Len(commits) :
            /\ commits[k].tree.gomod =
                  UpdateGoModFiles(ParentTree(k).gomod, MyModFiles,
                                   OtherModSetMap[SetOfCommit(k)].Modules,
                                   OtherModSetMap[SetOfCommit(k)].Version)
            /\ commits[k].tree.other = ParentTree(k).other
            /\ commits[k].tree.gomod # ParentTree(k).gomod
      /\ Len(commits) > 0 => headTree = commits[Len(commits)].tree

\* The second iteration starts on a clean tree after the commit of the
\* first set, whose go mod tidy had run.
C21_Witness ==
    /\ run = 1 /\ syncPc = "update" /\ setIdx = 2
    /\ Len(commits) = 1 /\ Len(tidyRuns) = 1 /\ tidyWarnings = <<>>
    /\ worktree = headTree
    /\ headTree # headTree0

(***************************************************************************)
(* Two tag runs on one repository.                                         *)
(***************************************************************************)
RunFinished(p) == runPc[p] \in {"done", "fatal"}

BothFinished == \A p \in Procs : RunFinished(p)

\* The repository held no tag of the set when the runs began.
FreshStart == \A i \in 1..Len(modFullTags) : ~Exists(tags0, modFullTags[i])

AllPresent == \A i \in 1..Len(modFullTags) : Exists(tags, modFullTags[i])

AllAbsent == \A i \in 1..Len(modFullTags) : ~Exists(tags, modFullTags[i])

\* At most one run has returned success.
AtMostOneSuccess == ~(\A p \in Procs : runPc[p] = "done")

\* No rollback has deleted a tag the other run wrote.
RollbackSparesOther == \A p \in Procs : OtherProc(p) \notin deletedOf[p]

\* After both runs the set is tagged fully or not at all.
AllOrNothing == (BothFinished /\ FreshStart) => (AllPresent \/ AllAbsent)

ExclusiveOutcome == AtMostOneSuccess /\ RollbackSparesOther /\ AllOrNothing

\* No CreateTag wrote over a tag that appeared after its lookup, and no
\* DeleteTag of a rollback returned an error.
CallsUndisturbed == ~overwritten /\ ~rollbackFailed

\* C22 as stated: when two tag-create runs for the same module set and
\* commit interleave arbitrarily on one repository, at most one returns
\* success, the failing run's rollback deletes no tag the other run created,
\* and once both have finished the full tag names of the set are all present
\* or all absent.
C22_InterleavedRunsExclusive == ExclusiveOutcome

\* C22, amended: in every interleaving a run's rollback deletes only names
\* of its own addedFullTags and a run returns success only after each of its
\* CreateTag calls returned without error; as long as no CreateTag wrote
\* over a tag that appeared after its lookup, at most one run returns success
\* and no rollback deletes a tag the other run wrote; and if in addition no
\* rollback deletion failed, then once both have finished the full tag names
\* of the set are all present or all absent.
C22_ExclusiveWhenCallsUndisturbed ==
    /\ \A p \in Procs :
          /\ \A i \in 1..Len(runDelTags[p]) : InSeq(runDelTags[p][i], runAdded[p])
          /\ runPc[p] = "done" => runAdded[p] = modFullTags
          /\ runPc[p] = "rollback" => runDelTags[p] # <<>>
    /\ ~overwritten => (AtMostOneSuccess /\ RollbackSparesOther)
    /\ CallsUndisturbed => AllOrNothing

\* Run 2 created a tag, failed and rolled it back; run 1, which had passed
\* its verification before, then tagged the whole set.
C22_Witness ==
    /\ CallsUndisturbed
    /\ runPc[1] = "done" /\ runPc[2] = "fatal"
    /\ runAdded[2] # <<>>
    /\ runErr[2].cause.rollback = NilErr
    /\ Len(modFullTags) > 1
    /\ FreshStart /\ AllPresent

====
